---- MODULE Spec2Model ----
(***************************************************************************)
(* simple-calc: a line-oriented calculator.  main reads a line, builds a   *)
(* Lexer over it and a Parser over the Lexer, and prints what Parser::eval *)
(* returns.  The parser is a recursive descent over four grammar levels    *)
(* that evaluates while it parses, through the two registers current and   *)
(* look_ahead.  The model runs the parser one code segment at a time with  *)
(* an explicit call stack.                                                 *)
(*                                                                         *)
(* Text is a sequence of one-character strings.  An f64 is modelled as a   *)
(* signed fraction: finite values are exact (rounding and overflow of f64  *)
(* are not modelled), n/0 is an infinity and 0/0 is NaN, and zero keeps    *)
(* its sign as in IEEE 754.                                                *)
(***************************************************************************)
EXTENDS Integers, Sequences, FiniteSets, TLC

\* ------------------------------------------------------------------------
\* Bounds of the model
\* ------------------------------------------------------------------------

\* longest arbitrary line body (every string over Alphabet up to this length)
MaxShort == 3

\* longest well-formed expression, in characters
MaxExprLen == 8

\* most lines in a session of several lines
MaxLines == 3

\* ------------------------------------------------------------------------
\* f64 values
\* ------------------------------------------------------------------------

RECURSIVE Gcd(_, _)
Gcd(a, b) == IF b = 0 THEN a ELSE Gcd(b, a % b)

Abs(x) == IF x < 0 THEN -x ELSE x

\* the fraction s*n/d in lowest terms; 0/0 is NaN and carries no sign
Norm(s, n, d) ==
    LET g == Gcd(n, d) IN
    IF g = 0 THEN [s |-> 1, n |-> 0, d |-> 0]
             ELSE [s |-> s, n |-> n \div g, d |-> d \div g]

NaN == [s |-> 1, n |-> 0, d |-> 0]

IsNaN(x) == x.n = 0 /\ x.d = 0

IsInf(x) == x.n # 0 /\ x.d = 0

IsZero(x) == x.n = 0 /\ x.d # 0

\* an integer as an f64
Num(i) == [s |-> IF i < 0 THEN -1 ELSE 1, n |-> Abs(i), d |-> 1]

\* a fraction as an f64 (p / q with q > 0)
Frac(p, q) == Norm(IF p < 0 THEN -1 ELSE 1, Abs(p), q)

\* unary minus of f64
Neg(x) == IF IsNaN(x) THEN x ELSE [x EXCEPT !.s = -x.s]

\* f64 multiplication
FMul(x, y) == Norm(x.s * y.s, x.n * y.n, x.d * y.d)

\* f64 division: multiplication by the reciprocal, so x/0 is an infinity
FDiv(x, y) == Norm(x.s * y.s, x.n * y.d, x.d * y.n)

\* f64 addition
FAdd(x, y) ==
    IF IsNaN(x) \/ IsNaN(y) THEN NaN
    ELSE IF IsInf(x) /\ IsInf(y) THEN (IF x.s = y.s THEN x ELSE NaN)
    ELSE IF IsInf(x) THEN x
    ELSE IF IsInf(y) THEN y
    ELSE LET t == x.s * x.n * y.d + y.s * y.n * x.d IN
         IF t = 0
         THEN [s |-> IF IsZero(x) /\ IsZero(y) /\ x.s = -1 /\ y.s = -1
                      THEN -1 ELSE 1,
               n |-> 0, d |-> 1]
         ELSE Norm(IF t < 0 THEN -1 ELSE 1, Abs(t), x.d * y.d)

\* f64 subtraction
FSub(x, y) == FAdd(x, Neg(y))

\* ------------------------------------------------------------------------
\* Token
\* ------------------------------------------------------------------------

Number(v) == [type |-> "Number", num |-> v, ch |-> ""]

Operator(c) == [type |-> "Operator", num |-> Num(0), ch |-> c]

Empty == [type |-> "Empty", num |-> Num(0), ch |-> ""]

End == [type |-> "End", num |-> Num(0), ch |-> ""]

IsOp(t, chars) == t.type = "Operator" /\ t.ch \in chars

\* Token::get_number: Some(number) of a Number, None of anything else
get_number(t) ==
    IF t.type = "Number" THEN [some |-> TRUE, num |-> t.num]
                         ELSE [some |-> FALSE, num |-> Num(0)]

\* ------------------------------------------------------------------------
\* Lexer
\* ------------------------------------------------------------------------

AsciiDigits == {"0", "1", "2", "3", "4", "5", "6", "7", "8", "9"}

OperatorChars == {"+", "-", "*", "/", "%", "(", ")"}

WhiteSpace == {" ", "\t", "\n", "\r"}

DigitValue(c) ==
    CASE c = "0" -> 0 [] c = "1" -> 1 [] c = "2" -> 2 [] c = "3" -> 3
      [] c = "4" -> 4 [] c = "5" -> 5 [] c = "6" -> 6 [] c = "7" -> 7
      [] c = "8" -> 8 [] c = "9" -> 9

Tail_from(s, i) == SubSeq(s, i, Len(s))

\* str::trim_start
RECURSIVE trim_start(_)
trim_start(s) ==
    IF s # << >> /\ s[1] \in WhiteSpace THEN trim_start(Tail(s)) ELSE s

\* str::trim().is_empty()
is_blank(s) == \A i \in 1..Len(s) : s[i] \in WhiteSpace

\* s.find(|c| !c.is_ascii_digit()): index (from 1) of the first character
\* that is no digit, 0 for None
find_non_digit(s) ==
    LET P == {i \in 1..Len(s) : s[i] \notin AsciiDigits} IN
    IF P = {} THEN 0 ELSE CHOOSE i \in P : \A j \in P : i <= j

\* str::parse::<f64> of a run of digits
RECURSIVE parse_digits(_, _)
parse_digits(s, acc) ==
    IF s = << >> THEN acc
    ELSE parse_digits(Tail(s), 10 * acc + DigitValue(s[1]))

\* the places where the program can panic, by source line
PanicFindUnwrap == 46
PanicUnrecognized == 58
PanicMulUnwrap == 133
PanicAddUnwrap == 162

\* the unrecognized character handed out as a token instead of the panic
Lexer_next_unrecognized_token(s, r) == [tok |-> Operator(s[1]), raw |-> Tail(s), panic |-> 0]

\* Lexer::next on the remaining text r: the token, the new remaining text,
\* and the line of the panic (0 when it returns)
Lexer_next_unrecognized(s, r) == [tok |-> Empty, raw |-> r, panic |-> PanicUnrecognized]

Lexer_next_number(s, r) ==
    LET idx == find_non_digit(s) IN
    IF idx = 0
    THEN [tok |-> Empty, raw |-> r, panic |-> PanicFindUnwrap]
    ELSE [tok |-> Number(Num(parse_digits(SubSeq(s, 1, idx - 1), 0))),
          raw |-> Tail_from(s, idx), panic |-> 0]

Lexer_next_end(s, r) == [tok |-> End, raw |-> r, panic |-> 0]

Lexer_next(r) ==
    LET s == trim_start(r) IN
    IF s = << >> THEN Lexer_next_end(s, r)
    ELSE IF s[1] \in AsciiDigits THEN Lexer_next_number(s, r)
    ELSE IF s[1] \in OperatorChars
         THEN [tok |-> Operator(s[1]), raw |-> Tail(s), panic |-> 0]
    ELSE Lexer_next_unrecognized(s, r)

\* Lexer::new
Lexer_new(s) == s

\* ------------------------------------------------------------------------
\* Result<f64, &'static str>
\* ------------------------------------------------------------------------

Ok(v) == [ok |-> TRUE, num |-> v, msg |-> ""]

Err(m) == [ok |-> FALSE, num |-> Num(0), msg |-> m]

\* the value of a result register before anything has returned into it
Unset == [ok |-> FALSE, num |-> Num(0), msg |-> ""]

IsErr(r) == ~r.ok /\ r.msg # ""

UnmatchedBracket == "unmatched bracket"
InvalidOperator == "invalid operator"
ErrorOccurred == "error occurred"
InvalidExpression == "invalid expression"

\* ------------------------------------------------------------------------
\* Parser: the registers and Parser::shift
\* ------------------------------------------------------------------------

\* Parser::new: both registers start as Empty
Parser_new == [current |-> Empty, look_ahead |-> Empty]

\* a shift that does not ask the lexer again once it has given End, and
\* leaves look_ahead Empty
shift_once_past_end(cur, la, r) ==
    LET n == Lexer_next(r) IN
    [result |-> cur, current |-> la,
     look_ahead |-> IF la = End THEN Empty
                    ELSE IF n.panic = 0 THEN n.tok ELSE la,
     raw |-> IF la = End THEN r ELSE n.raw,
     panic |-> IF la = End THEN 0 ELSE n.panic]

\* Parser::shift on registers cur, la and remaining text r: the token shifted
\* out, the new registers and text, and the line of the panic (0 for none).
\* current is assigned before Lexer::next runs, so it is set even on a panic.
shift(cur, la, r) ==
    LET n == Lexer_next(r) IN
    [result |-> cur, current |-> la,
     look_ahead |-> IF n.panic = 0 THEN n.tok ELSE la,
     raw |-> n.raw, panic |-> n.panic]

\* two shifts in a row; result is the token the second one shifts out
shift2(cur, la, r) ==
    LET s1 == shift(cur, la, r) IN
    IF s1.panic # 0 THEN s1 ELSE shift(s1.current, s1.look_ahead, s1.raw)

\* ------------------------------------------------------------------------
\* The input: what stdin can hold
\* ------------------------------------------------------------------------

Cat(a, b) == a \o b

\* the characters of the arbitrary lines: digits, every operator character,
\* a blank, and a character the lexer does not recognise
Alphabet == {"3", "+", "-", "*", "/", "%", "(", ")", " ", "x"}

\* every string over S of length n
Strings(S, n) == [1..n -> S]

\* every string over Alphabet of at most MaxShort characters
ShortBodies == UNION {Strings(Alphabet, n) : n \in 0..MaxShort}

\* the digits of the generated expressions (numbers are 3, 33, 333, ...)
ExprDigits == {"3"}

\* The expressions of exactly n characters of the textbook grammar
\*   add ::= mul | add (+|-) mul     mul ::= prim | mul (*|/) prim
\*   prim ::= digits | ( add )
\* given tab, the same for every length below n.
GrammarLevel(tab, n) ==
    LET num == IF n = 1 THEN {<<d>> : d \in ExprDigits}
               ELSE {Append(a, d) : a \in tab[n - 1].num, d \in ExprDigits}
        prim == num \cup
                (IF n >= 3 THEN {<<"(">> \o e \o <<")">> : e \in tab[n - 2].add}
                           ELSE {})
        mul == prim \cup UNION {
                 {a \o <<o>> \o b : a \in tab[i].mul, o \in {"*", "/"},
                                    b \in tab[n - 1 - i].prim} : i \in 1..(n - 2)}
        add == mul \cup UNION {
                 {a \o <<o>> \o b : a \in tab[i].add, o \in {"+", "-"},
                                    b \in tab[n - 1 - i].mul} : i \in 1..(n - 2)}
    IN [num |-> num, prim |-> prim, mul |-> mul, add |-> add]

RECURSIVE GrammarTable(_, _)
GrammarTable(tab, n) ==
    IF Len(tab) >= n THEN tab
    ELSE GrammarTable(Append(tab, GrammarLevel(tab, Len(tab) + 1)), n)

\* every well-formed expression of at most MaxExprLen characters
Expressions ==
    LET tab == GrammarTable(<< >>, MaxExprLen) IN
    UNION {tab[n].add : n \in 1..MaxExprLen}

\* an expression with closing parentheses missing at its end
RECURSIVE StripClosers(_)
StripClosers(e) ==
    IF e # << >> /\ e[Len(e)] = ")"
    THEN LET f == SubSeq(e, 1, Len(e) - 1) IN {f} \cup StripClosers(f)
    ELSE {}

Unclosed == UNION {StripClosers(e) : e \in Expressions}

\* an expression followed by one more token
Trailers == {<<" ", "3">>, <<")">>, <<"(">>, <<"%">>}

Trailing ==
    {e \o t : e \in {f \in Expressions : Len(f) + 3 <= MaxExprLen}, t \in Trailers}

\* the places of e where an operand starts: at the start of e, after an
\* opening parenthesis and after a binary operator
OperandStarts(e) ==
    {i \in 1..Len(e) : i = 1 \/ e[i - 1] \in {"(", "+", "-", "*", "/"}}

\* an expression with one sign put before one of its operands
Signed ==
    UNION {{SubSeq(e, 1, i - 1) \o <<sg>> \o SubSeq(e, i, Len(e)) :
                i \in OperandStarts(e), sg \in {"+", "-"}} :
           e \in {f \in Expressions : Len(f) + 2 <= MaxExprLen}}

\* a signed parenthesised group as the left operand of a binary operator
SignedGroups ==
    {<<sg, "(", "3", a, "3", ")", b, "3">> :
        sg \in {"+", "-"}, a \in {"+", "-"}, b \in {"+", "-", "*", "/"}}

\* divisions by a zero operand, and what can follow them
ZeroDivisions ==
    { <<"3", "/", "0">>, <<"0", "/", "0">>, <<"-", "3", "/", "0">>,
      <<"3", "/", "-", "0">>, <<"3", "/", "(", "3", "/", "0", ")">>,
      <<"3", "/", "0", "*", "0">>, <<"3", "/", "0", "-", "3", "/", "0">>,
      <<"3", "/", "0", "+", "3">>, <<"3", "/", "0", ")">>, <<"(", "3", "/", "0">> }

\* the examples the specification names
Examples ==
    { <<"8", "-", "3", "-", "2">>, <<"8", "/", "2", "*", "3">>,
      <<"1", "+", "2", "*", "3">>, <<"(", "1", "+", "2", ")", "*", "3">>,
      <<"-", "2", "*", "3">>, <<"-", "2", "+", "3">>, <<"2", "*", "-", "3">>,
      <<"2", "%", "3">>, <<"1", " ", "2">>, <<"1", ")">>,
      <<"(", "1", "+", "2">>, <<"(", "(", "1", "+", "2", ")">>,
      <<"3", "*", "(", "1", "+", "2">>,
      <<"1", "/", "0">>, <<"2", "/", "(", "3", "-", "3", ")">> }

Bodies ==
    ShortBodies \cup Expressions \cup Unclosed \cup Trailing \cup Signed
    \cup SignedGroups \cup ZeroDivisions \cup Examples

\* read_line gives a line with its newline; only the last line of stdin can
\* lack one (end of file)
Terminated(b) == Append(b, "\n")

\* the lines of the sessions of several lines
SessionLines ==
    { Terminated(<<"2", "+", "3">>), Terminated(<<"2", "*", ")">>),
      Terminated(<<"2", " ", "3">>), Terminated(<<" ">>), Terminated(<<"x">>) }

\* the last line of stdin when end of file comes before its newline
Unterminated == UNION {Strings(Alphabet, n) : n \in 1..(MaxShort - 1)}

Sessions ==
    {<<Terminated(b)>> : b \in Bodies}
    \cup {<<b>> : b \in Unterminated}
    \cup UNION {[1..n -> SessionLines] : n \in 2..MaxLines}

\* ------------------------------------------------------------------------
\* The state
\* ------------------------------------------------------------------------

VARIABLES
    stdin,       \* the lines of standard input
    nread,       \* how many of them read_line has returned
    stdout,      \* what println! has printed, a result per line
    pc,          \* main: "read", "run" (inside eval), "print", "exit", "abort"
    panicked,    \* the source line of the panic (0: none)
    raw,         \* Lexer::raw
    current,     \* Parser::current
    look_ahead,  \* Parser::look_ahead
    stack,       \* the call stack of the parser, the running frame last
    ret,         \* what the last grammar level returned
    result       \* main's result: what eval returned

vars == <<stdin, nread, stdout, pc, panicked, raw, current, look_ahead, stack, ret, result>>

io == <<stdin, nread, stdout, result>>

Frame(f) == [fn |-> f, pc |-> "start", op1 |-> Num(0), operator |-> Empty]

Top == stack[Len(stack)]

Callers == SubSeq(stack, 1, Len(stack) - 1)

At(f, p) == pc = "run" /\ stack # << >> /\ Top.fn = f /\ Top.pc = p

\* the running frame goes on at label p once the level f it calls returns
Call(p, f) == stack' = Append([stack EXCEPT ![Len(stack)].pc = p], Frame(f))

CallWith(p, f, op1, operator) ==
    stack' = Append([stack EXCEPT ![Len(stack)] =
                        [fn |-> Top.fn, pc |-> p, op1 |-> op1, operator |-> operator]],
                    Frame(f))

Return(r) == stack' = Callers /\ ret' = r

\* the registers and the remaining text as a shift left them
Shifted(s) == current' = s.current /\ look_ahead' = s.look_ahead /\ raw' = s.raw

Panic(line) == pc' = "abort" /\ panicked' = line

Init ==
    /\ stdin \in Sessions
    /\ nread = 0
    /\ stdout = << >>
    /\ pc = "read"
    /\ panicked = 0
    /\ raw = << >>
    /\ current = Empty
    /\ look_ahead = Empty
    /\ stack = << >>
    /\ ret = Unset
    /\ result = Unset

\* ------------------------------------------------------------------------
\* main
\* ------------------------------------------------------------------------

\* what read_line puts into input: the next line, nothing at end of file
next_input == IF nread < Len(stdin) THEN stdin[nread + 1] ELSE << >>

\* a loop whose input buffer is not new for each line: read_line appends
\* the line to the text of the line before
main_read_line_appending ==
    /\ pc = "read"
    /\ ~is_blank(next_input)
    /\ nread' = nread + 1
    /\ raw' = Lexer_new(IF nread = 0 THEN next_input
                        ELSE stdin[nread] \o next_input)
    /\ current' = Parser_new.current
    /\ look_ahead' = Parser_new.look_ahead
    /\ stack' = <<Frame("eval")>>
    /\ ret' = Unset
    /\ result' = Unset
    /\ pc' = "run"
    /\ UNCHANGED <<stdin, stdout, panicked>>

\* lines 203-211: a line that is not blank gets a fresh Lexer and a fresh
\* Parser, and eval is called
main_read_line ==
    /\ pc = "read"
    /\ ~is_blank(next_input)
    /\ nread' = nread + 1
    /\ raw' = Lexer_new(next_input)
    /\ current' = Parser_new.current
    /\ look_ahead' = Parser_new.look_ahead
    /\ stack' = <<Frame("eval")>>
    /\ ret' = Unset
    /\ result' = Unset
    /\ pc' = "run"
    /\ UNCHANGED <<stdin, stdout, panicked>>

\* a loop that prints a result for the blank line before it stops
main_break_printing ==
    /\ pc = "read"
    /\ is_blank(next_input)
    /\ nread' = IF nread < Len(stdin) THEN nread + 1 ELSE nread
    /\ stdout' = Append(stdout, Unset)
    /\ pc' = "exit"
    /\ UNCHANGED <<stdin, panicked, raw, current, look_ahead, stack, ret, result>>

\* lines 203-207: a blank line, or the empty input of end of file, breaks
main_break ==
    /\ pc = "read"
    /\ is_blank(next_input)
    /\ nread' = IF nread < Len(stdin) THEN nread + 1 ELSE nread
    /\ pc' = "exit"
    /\ UNCHANGED <<stdin, stdout, panicked, raw, current, look_ahead, stack, ret, result>>

\* lines 213-216: the result is printed, the value or the message
main_print ==
    /\ pc = "print"
    /\ stdout' = Append(stdout, result)
    /\ pc' = "read"
    /\ UNCHANGED <<stdin, nread, panicked, raw, current, look_ahead, stack, ret, result>>

\* ------------------------------------------------------------------------
\* Parser::eval
\* ------------------------------------------------------------------------

\* an eval that primes with one shift only
eval_prime_once ==
    /\ At("eval", "start")
    /\ LET s == shift(current, look_ahead, raw) IN
       /\ Shifted(s)
       /\ IF s.panic # 0
          THEN Panic(s.panic) /\ UNCHANGED stack
          ELSE Call("after_add", "add") /\ UNCHANGED <<pc, panicked>>
    /\ UNCHANGED <<io, ret>>

\* lines 187-189: the two priming shifts, then the additive level
eval_prime ==
    /\ At("eval", "start")
    /\ LET s == shift2(current, look_ahead, raw) IN
       /\ Shifted(s)
       /\ IF s.panic # 0
          THEN Panic(s.panic) /\ UNCHANGED stack
          ELSE Call("after_add", "add") /\ UNCHANGED <<pc, panicked>>
    /\ UNCHANGED <<io, ret>>

\* eval without the check of the trailing token
eval_result_unchecked(r, la) == r

\* line 190-194: what eval returns for the additive level's result r with
\* la in look_ahead
eval_result(r, la) == IF la.type = "End" THEN r ELSE Err(InvalidExpression)

eval_return ==
    /\ At("eval", "after_add")
    /\ result' = eval_result(ret, look_ahead)
    /\ stack' = Callers
    /\ pc' = "print"
    /\ UNCHANGED <<stdin, nread, stdout, panicked, raw, current, look_ahead, ret>>

\* ------------------------------------------------------------------------
\* Parser::eval_primary_expr
\* ------------------------------------------------------------------------

\* lines 92-94: an opening parenthesis is shifted out and the additive level
\* evaluates the group
eval_primary_expr_open ==
    /\ At("primary", "start")
    /\ IsOp(current, {"("})
    /\ LET s == shift(current, look_ahead, raw) IN
       /\ Shifted(s)
       /\ IF s.panic # 0
          THEN Panic(s.panic) /\ UNCHANGED stack
          ELSE Call("after_group", "add") /\ UNCHANGED <<pc, panicked>>
    /\ UNCHANGED <<io, ret>>

\* a group whose closing parenthesis is shifted with the shifted-out value
\* dropped: the parenthesis stays in current
eval_primary_expr_close_dropping ==
    /\ At("primary", "after_group")
    /\ IF IsErr(ret)
       THEN Return(ret) /\ UNCHANGED <<pc, panicked, raw, current, look_ahead>>
       ELSE IF IsOp(look_ahead, {")"})
       THEN LET s == shift(current, look_ahead, raw) IN
            /\ Shifted(s)
            /\ IF s.panic # 0
               THEN Panic(s.panic) /\ UNCHANGED <<stack, ret>>
               ELSE Return(Ok(ret.num)) /\ UNCHANGED <<pc, panicked>>
       ELSE Return(Err(UnmatchedBracket))
            /\ UNCHANGED <<pc, panicked, raw, current, look_ahead>>
    /\ UNCHANGED io

\* every failure inside a group reported as an unmatched bracket
eval_primary_expr_close_rewording ==
    /\ At("primary", "after_group")
    /\ IF ~IsErr(ret) /\ IsOp(look_ahead, {")"})
       THEN LET s == shift(current, look_ahead, raw) IN
            /\ raw' = s.raw
            /\ look_ahead' = s.look_ahead
            /\ IF s.panic # 0
               THEN /\ current' = s.current
                    /\ Panic(s.panic)
                    /\ UNCHANGED <<stack, ret>>
               ELSE /\ current' = s.result
                    /\ Return(Ok(ret.num))
                    /\ UNCHANGED <<pc, panicked>>
       ELSE Return(Err(UnmatchedBracket))
            /\ UNCHANGED <<pc, panicked, raw, current, look_ahead>>
    /\ UNCHANGED io

\* a group accepted without its closing parenthesis
eval_primary_expr_close_lenient ==
    /\ At("primary", "after_group")
    /\ IF IsErr(ret)
       THEN Return(ret) /\ UNCHANGED <<pc, panicked, raw, current, look_ahead>>
       ELSE IF IsOp(look_ahead, {")"})
       THEN LET s == shift(current, look_ahead, raw) IN
            /\ raw' = s.raw
            /\ look_ahead' = s.look_ahead
            /\ IF s.panic # 0
               THEN /\ current' = s.current
                    /\ Panic(s.panic)
                    /\ UNCHANGED <<stack, ret>>
               ELSE /\ current' = s.result
                    /\ Return(Ok(ret.num))
                    /\ UNCHANGED <<pc, panicked>>
       ELSE Return(Ok(ret.num))
            /\ UNCHANGED <<pc, panicked, raw, current, look_ahead>>
    /\ UNCHANGED io

\* lines 94-101: the group's error goes up; else the closing parenthesis is
\* required in look_ahead, and shifting it puts the group's value back into
\* current
eval_primary_expr_close ==
    /\ At("primary", "after_group")
    /\ IF IsErr(ret)
       THEN Return(ret) /\ UNCHANGED <<pc, panicked, raw, current, look_ahead>>
       ELSE IF IsOp(look_ahead, {")"})
       THEN LET s == shift(current, look_ahead, raw) IN
            /\ raw' = s.raw
            /\ look_ahead' = s.look_ahead
            /\ IF s.panic # 0
               THEN /\ current' = s.current
                    /\ Panic(s.panic)
                    /\ UNCHANGED <<stack, ret>>
               ELSE /\ current' = s.result
                    /\ Return(Ok(ret.num))
                    /\ UNCHANGED <<pc, panicked>>
       ELSE Return(Err(UnmatchedBracket))
            /\ UNCHANGED <<pc, panicked, raw, current, look_ahead>>
    /\ UNCHANGED io

\* line 104
eval_primary_expr_number ==
    /\ At("primary", "start")
    /\ current.type = "Number"
    /\ Return(Ok(current.num))
    /\ UNCHANGED <<io, pc, panicked, raw, current, look_ahead>>

\* line 106
eval_primary_expr_invalid ==
    /\ At("primary", "start")
    /\ ~IsOp(current, {"("})
    /\ current.type # "Number"
    /\ Return(Err(InvalidOperator))
    /\ UNCHANGED <<io, pc, panicked, raw, current, look_ahead>>

\* ------------------------------------------------------------------------
\* Parser::eval_unary_expr
\* ------------------------------------------------------------------------

\* the operand of a sign taken from the additive level
eval_unary_expr_sign_additive ==
    /\ At("unary", "start")
    /\ IsOp(current, {"+", "-"})
    /\ LET s == shift(current, look_ahead, raw) IN
       /\ Shifted(s)
       /\ IF s.panic # 0
          THEN Panic(s.panic) /\ UNCHANGED stack
          ELSE CallWith("after_operand", "add", Top.op1, s.result)
               /\ UNCHANGED <<pc, panicked>>
    /\ UNCHANGED <<io, ret>>

\* lines 112-114: a sign is shifted out and the primary level evaluates the
\* operand
eval_unary_expr_sign ==
    /\ At("unary", "start")
    /\ IsOp(current, {"+", "-"})
    /\ LET s == shift(current, look_ahead, raw) IN
       /\ Shifted(s)
       /\ IF s.panic # 0
          THEN Panic(s.panic) /\ UNCHANGED stack
          ELSE CallWith("after_operand", "primary", Top.op1, s.result)
               /\ UNCHANGED <<pc, panicked>>
    /\ UNCHANGED <<io, ret>>

\* lines 115-119: the sign applied to the operand
unary_apply(operator, oprand) ==
    IF operator.ch = "-" THEN Neg(oprand) ELSE oprand

\* a unary level that returns the signed value and leaves current as the
\* primary level left it
eval_unary_expr_apply_unstored ==
    /\ At("unary", "after_operand")
    /\ IF IsErr(ret)
       THEN Return(ret)
       ELSE Return(Ok(unary_apply(Top.operator, ret.num)))
    /\ UNCHANGED <<io, pc, panicked, raw, current, look_ahead>>

\* lines 114-122: the operand's error goes up; else the signed value goes
\* into current and is returned
eval_unary_expr_apply ==
    /\ At("unary", "after_operand")
    /\ IF IsErr(ret)
       THEN Return(ret) /\ UNCHANGED current
       ELSE LET r == unary_apply(Top.operator, ret.num) IN
            /\ current' = Number(r)
            /\ Return(Ok(r))
    /\ UNCHANGED <<io, pc, panicked, raw, look_ahead>>

\* line 124: without a sign the primary level is the unary level
eval_unary_expr_plain ==
    /\ At("unary", "start")
    /\ ~IsOp(current, {"+", "-"})
    /\ Call("after_tail", "primary")
    /\ UNCHANGED <<io, pc, panicked, raw, current, look_ahead, ret>>

eval_unary_expr_tail ==
    /\ At("unary", "after_tail")
    /\ Return(ret)
    /\ UNCHANGED <<io, pc, panicked, raw, current, look_ahead>>

\* ------------------------------------------------------------------------
\* Parser::eval_mul_expr and Parser::eval_add_expr
\*
\* The two levels have the same shape.  f is the level, g the level it calls
\* for an operand, ops its operators, line the place of its unwrap.
\* ------------------------------------------------------------------------

\* the remainder operator taken into the multiplicative level
MulOps_with_remainder == {"*", "/", "%"}

\* line 132: the operators of the multiplicative level
MulOps == {"*", "/"}

\* line 161: the operators of the additive level
AddOps == {"+", "-"}

\* lines 129 / 158: the level first evaluates the level below
LevelStart(f, g) ==
    /\ At(f, "start")
    /\ Call("after_first", g)
    /\ UNCHANGED <<io, pc, panicked, raw, current, look_ahead, ret>>

\* lines 129 / 158, the `?`: an error of the level below goes up unchanged
LevelPropagate(f) ==
    /\ At(f, "after_first")
    /\ IsErr(ret)
    /\ Return(ret)
    /\ UNCHANGED <<io, pc, panicked, raw, current, look_ahead>>

\* a level that takes its left operand and its operator from the registers
\* without shifting them out
LevelOperator_peeking(f, g, ops, line) ==
    /\ At(f, "after_first")
    /\ ~IsErr(ret)
    /\ IsOp(look_ahead, ops)
    /\ LET op1 == get_number(current) IN
       IF ~op1.some
       THEN Panic(line) /\ UNCHANGED stack
       ELSE CallWith("after_op2", g, op1.num, look_ahead) /\ UNCHANGED <<pc, panicked>>
    /\ UNCHANGED <<io, ret, raw, current, look_ahead>>

\* lines 132-136 / 161-165: with an operator of the level in look_ahead, the
\* left operand is shifted out of current and unwrapped, the operator is
\* shifted out, and the level below evaluates the right operand
LevelOperator(f, g, ops, line) ==
    /\ At(f, "after_first")
    /\ ~IsErr(ret)
    /\ IsOp(look_ahead, ops)
    /\ LET s1 == shift(current, look_ahead, raw)
           op1 == get_number(s1.result)
           s2 == shift(s1.current, s1.look_ahead, s1.raw)
       IN IF s1.panic # 0
          THEN Shifted(s1) /\ Panic(s1.panic) /\ UNCHANGED stack
          ELSE IF ~op1.some
          THEN Shifted(s1) /\ Panic(line) /\ UNCHANGED stack
          ELSE IF s2.panic # 0
          THEN Shifted(s2) /\ Panic(s2.panic) /\ UNCHANGED stack
          ELSE /\ Shifted(s2)
               /\ CallWith("after_op2", g, op1.num, s2.result)
               /\ UNCHANGED <<pc, panicked>>
    /\ UNCHANGED <<io, ret>>

\* lines 149-153 / 178-182: with anything else in look_ahead the level
\* returns the number in current
LevelBase(f) ==
    /\ At(f, "after_first")
    /\ ~IsErr(ret)
    /\ ~IsOp(look_ahead, IF f = "mul" THEN MulOps ELSE AddOps)
    /\ Return(IF current.type = "Number" THEN Ok(current.num)
                                         ELSE Err(ErrorOccurred))
    /\ UNCHANGED <<io, pc, panicked, raw, current, look_ahead>>

\* a division that drops the fraction, as an integer division would
mul_apply_truncating(operator, op1, op2) ==
    IF operator.ch = "*" THEN FMul(op1, op2)
    ELSE LET q == FDiv(op1, op2) IN
         IF q.d = 0 THEN q ELSE [s |-> q.s, n |-> q.n \div q.d, d |-> 1]

\* a division that checks for a zero divisor and gives zero for it
mul_apply_zero_checked(operator, op1, op2) ==
    IF operator.ch = "*" THEN FMul(op1, op2)
    ELSE IF IsZero(op2) THEN Num(0) ELSE FDiv(op1, op2)

\* lines 138-142
mul_apply(operator, op1, op2) ==
    IF operator.ch = "*" THEN FMul(op1, op2) ELSE FDiv(op1, op2)

\* the operands taken in the wrong order
add_apply_swapped(operator, op1, op2) ==
    IF operator.ch = "+" THEN FAdd(op2, op1) ELSE FSub(op2, op1)

\* lines 167-171
add_apply(operator, op1, op2) ==
    IF operator.ch = "+" THEN FAdd(op1, op2) ELSE FSub(op1, op2)

level_apply(f, operator, op1, op2) ==
    IF f = "mul" THEN mul_apply(operator, op1, op2)
                 ELSE add_apply(operator, op1, op2)

\* lines 136-146 / 165-175: an error of the right operand goes up unchanged;
\* else the two operands are combined, the value goes into current, and the
\* level calls itself
LevelCombine(f) ==
    /\ At(f, "after_op2")
    /\ IF IsErr(ret)
       THEN Return(ret) /\ UNCHANGED current
       ELSE /\ current' = Number(level_apply(f, Top.operator, Top.op1, ret.num))
            /\ Call("after_tail", f)
            /\ UNCHANGED ret
    /\ UNCHANGED <<io, pc, panicked, raw, look_ahead>>

\* lines 146 / 175: what the level's call of itself returns is what it returns
LevelTail(f) ==
    /\ At(f, "after_tail")
    /\ Return(ret)
    /\ UNCHANGED <<io, pc, panicked, raw, current, look_ahead>>

eval_mul_expr_start == LevelStart("mul", "unary")

eval_mul_expr_propagate == LevelPropagate("mul")

\* the right operand taken from the primary level, which knows no sign
eval_mul_expr_operator_primary == LevelOperator("mul", "primary", MulOps, PanicMulUnwrap)

eval_mul_expr_operator == LevelOperator("mul", "unary", MulOps, PanicMulUnwrap)

eval_mul_expr_base == LevelBase("mul")

eval_mul_expr_combine == LevelCombine("mul")

eval_mul_expr_tail == LevelTail("mul")

eval_add_expr_start == LevelStart("add", "mul")

eval_add_expr_propagate == LevelPropagate("add")

\* the right operand taken from the unary level, as eval_mul_expr does
eval_add_expr_operator_unary == LevelOperator("add", "unary", AddOps, PanicAddUnwrap)

eval_add_expr_operator == LevelOperator("add", "mul", AddOps, PanicAddUnwrap)

eval_add_expr_base == LevelBase("add")

eval_add_expr_combine == LevelCombine("add")

eval_add_expr_tail == LevelTail("add")

\* ------------------------------------------------------------------------
\* The specification
\* ------------------------------------------------------------------------

Next ==
    \/ main_read_line
    \/ main_break
    \/ main_print
    \/ eval_prime
    \/ eval_return
    \/ eval_primary_expr_open
    \/ eval_primary_expr_close
    \/ eval_primary_expr_number
    \/ eval_primary_expr_invalid
    \/ eval_unary_expr_sign
    \/ eval_unary_expr_apply
    \/ eval_unary_expr_plain
    \/ eval_unary_expr_tail
    \/ eval_mul_expr_start
    \/ eval_mul_expr_propagate
    \/ eval_mul_expr_operator
    \/ eval_mul_expr_base
    \/ eval_mul_expr_combine
    \/ eval_mul_expr_tail
    \/ eval_add_expr_start
    \/ eval_add_expr_propagate
    \/ eval_add_expr_operator
    \/ eval_add_expr_base
    \/ eval_add_expr_combine
    \/ eval_add_expr_tail

Spec == Init /\ [][Next]_vars

\* ------------------------------------------------------------------------
\* The line under evaluation, and a reference evaluator
\* ------------------------------------------------------------------------

\* the line read_line returned last
Line == IF nread >= 1 THEN stdin[nread] ELSE << >>

HasNewline(l) == l # << >> /\ l[Len(l)] = "\n"

\* the line without its newline
Body(l) == SubSeq(l, 1, Len(l) - 1)

\* eval has returned for Line, or the process has panicked in it
Returned == pc = "print"

Aborted == pc = "abort"

Max(S) == CHOOSE x \in S : \A y \in S : y <= x

\* how many parentheses are open before place i of s
Depth(s, i) ==
    Cardinality({j \in 1..(i - 1) : s[j] = "("})
    - Cardinality({j \in 1..(i - 1) : s[j] = ")"})

\* the places of s that hold a binary operator of ops outside every
\* parenthesis; with signs allowed, a + or - is binary only after an operand
TopLevel(s, ops, sg) ==
    {i \in 1..Len(s) :
        /\ s[i] \in ops
        /\ Depth(s, i) = 0
        /\ (~sg \/ (i > 1 /\ s[i - 1] \in AsciiDigits \cup {")"}))}

Bad == [ok |-> FALSE, num |-> Num(0)]

Good(v) == [ok |-> TRUE, num |-> v]

\* the arithmetic of the four operators
RefApply(op, a, b) ==
    CASE op = "+" -> FAdd(a, b)
      [] op = "-" -> FSub(a, b)
      [] op = "*" -> FMul(a, b)
      [] op = "/" -> FDiv(a, b)

RefBin(op, a, b) ==
    IF a.ok /\ b.ok THEN Good(RefApply(op, a.num, b.num)) ELSE Bad

RECURSIVE Pow10(_)
Pow10(k) == IF k = 0 THEN 1 ELSE 10 * Pow10(k - 1)

RECURSIVE SumTo(_, _)
SumTo(s, n) ==
    IF n = 0 THEN 0 ELSE DigitValue(s[n]) * Pow10(Len(s) - n) + SumTo(s, n - 1)

\* the number a decimal numeral denotes
RefDecimal(s) == SumTo(s, Len(s))

IsNumeral(s) == s # << >> /\ \A i \in 1..Len(s) : s[i] \in AsciiDigits

\* The value of the text s (no blanks) by the textbook grammar: a sum splits
\* at its last top-level + or -, a product at its last top-level * or /, so
\* operators of one level group to the left and * / bind tighter than + -.
\* With sg, one sign may stand before a primary.
RECURSIVE RefAdd(_, _), RefMul(_, _), RefPrim(_, _)
RefAdd(s, sg) ==
    LET P == TopLevel(s, {"+", "-"}, sg) IN
    IF P = {} THEN RefMul(s, sg)
    ELSE LET i == Max(P) IN
         RefBin(s[i], RefAdd(SubSeq(s, 1, i - 1), sg),
                      RefMul(SubSeq(s, i + 1, Len(s)), sg))

RefUnary(s, sg) ==
    IF sg /\ s # << >> /\ s[1] \in {"+", "-"}
    THEN LET p == RefPrim(Tail(s), sg) IN
         IF ~p.ok THEN Bad
         ELSE IF s[1] = "-" THEN Good(Neg(p.num)) ELSE p
    ELSE RefPrim(s, sg)

RefMul(s, sg) ==
    LET P == TopLevel(s, {"*", "/"}, sg) IN
    IF P = {} THEN RefUnary(s, sg)
    ELSE LET i == Max(P) IN
         RefBin(s[i], RefMul(SubSeq(s, 1, i - 1), sg),
                      RefUnary(SubSeq(s, i + 1, Len(s)), sg))

RefPrim(s, sg) ==
    IF IsNumeral(s) THEN Good(Num(RefDecimal(s)))
    ELSE IF /\ Len(s) >= 3
            /\ s[1] = "("
            /\ s[Len(s)] = ")"
            /\ \A i \in 2..Len(s) : Depth(s, i) >= 1
         THEN RefAdd(SubSeq(s, 2, Len(s) - 1), sg)
    ELSE Bad

\* s is a well-formed expression: numerals, binary + - * /, balanced
\* parentheses
WellFormed(s) == RefAdd(s, FALSE).ok

\* ------------------------------------------------------------------------
\* Tokens of a text without blanks, for the shapes the claims name
\* ------------------------------------------------------------------------

\* the length of the run of digits s starts with
RunLen(s) == Max({k \in 0..Len(s) : \A j \in 1..k : s[j] \in AsciiDigits})

RECURSIVE RefTokens(_)
RefTokens(s) ==
    IF s = << >> THEN << >>
    ELSE IF s[1] \in AsciiDigits
    THEN LET k == RunLen(s) IN
         <<[n |-> TRUE, v |-> Num(RefDecimal(SubSeq(s, 1, k))), c |-> ""]>>
         \o RefTokens(SubSeq(s, k + 1, Len(s)))
    ELSE <<[n |-> FALSE, v |-> Num(0), c |-> s[1]]>> \o RefTokens(Tail(s))

IsN(t, i) == t[i].n

IsC(t, i, S) == ~t[i].n /\ t[i].c \in S

\* the tokens of the line under evaluation
LineTokens == RefTokens(Body(Line))

\* eval is over for a line that came with its newline
Over == (Returned \/ Aborted) /\ HasNewline(Line)

\* ------------------------------------------------------------------------
\* C1
\* ------------------------------------------------------------------------

\* C1: for every well-formed expression line (newline-terminated; numerals,
\* binary + - * /, balanced parentheses) eval returns Ok(v), v the value of
\* the reference evaluator: * and / before + and -, grouping to the left at
\* equal precedence, division without rounding to an integer.
C1_EvalMatchesReference ==
    Over /\ WellFormed(Body(Line))
        => Returned /\ result = Ok(RefAdd(Body(Line), FALSE).num)

\* (3+3)*33 has been evaluated to 198
C1_Witness ==
    /\ Returned
    /\ Line = <<"(", "3", "+", "3", ")", "*", "3", "3", "\n">>
    /\ result = Ok(Num(198))

\* ------------------------------------------------------------------------
\* C2
\* ------------------------------------------------------------------------

\* t is a chain of numbers joined by operators of ops
IsChain(t, ops) ==
    /\ Len(t) >= 3
    /\ Len(t) % 2 = 1
    /\ \A i \in 1..Len(t) : IF i % 2 = 1 THEN IsN(t, i) ELSE IsC(t, i, ops)

\* the left fold of the first k tokens of a chain: ((a op b) op c) ...
RECURSIVE LeftFold(_, _)
LeftFold(t, k) ==
    IF k = 1 THEN t[1].v
    ELSE RefApply(t[k - 1].c, LeftFold(t, k - 2), t[k].v)

\* C2: a chain a op1 b op2 c ... of operators of one precedence level (all
\* + -, or all * /) evaluates to its left fold; 8-3-2 gives 3 and 8/2*3
\* gives 12.
C2_LeftAssociative ==
    /\ Over /\ (IsChain(LineTokens, {"+", "-"}) \/ IsChain(LineTokens, {"*", "/"}))
          => Returned /\ result = Ok(LeftFold(LineTokens, Len(LineTokens)))
    /\ Over /\ Line = <<"8", "-", "3", "-", "2", "\n">>
          => Returned /\ result = Ok(Num(3))
    /\ Over /\ Line = <<"8", "/", "2", "*", "3", "\n">>
          => Returned /\ result = Ok(Num(12))

\* 8-3-2 has been evaluated to 3
C2_Witness ==
    /\ Returned
    /\ Line = <<"8", "-", "3", "-", "2", "\n">>
    /\ result = Ok(Num(3))

\* ------------------------------------------------------------------------
\* C3
\* ------------------------------------------------------------------------

\* the value of the shapes that mix the two levels, with and without a
\* parenthesised group
MixedValue(t) ==
    IF /\ Len(t) = 5 /\ IsN(t, 1) /\ IsN(t, 3) /\ IsN(t, 5)
       /\ IsC(t, 2, {"+", "-"}) /\ IsC(t, 4, {"*", "/"})
    THEN Good(RefApply(t[2].c, t[1].v, RefApply(t[4].c, t[3].v, t[5].v)))
    ELSE IF /\ Len(t) = 5 /\ IsN(t, 1) /\ IsN(t, 3) /\ IsN(t, 5)
            /\ IsC(t, 2, {"*", "/"}) /\ IsC(t, 4, {"+", "-"})
    THEN Good(RefApply(t[4].c, RefApply(t[2].c, t[1].v, t[3].v), t[5].v))
    ELSE IF /\ Len(t) = 7 /\ IsC(t, 1, {"("}) /\ IsN(t, 2) /\ IsN(t, 4)
            /\ IsC(t, 3, {"+", "-"}) /\ IsC(t, 5, {")"})
            /\ IsC(t, 6, {"*", "/"}) /\ IsN(t, 7)
    THEN Good(RefApply(t[6].c, RefApply(t[3].c, t[2].v, t[4].v), t[7].v))
    ELSE IF /\ Len(t) = 7 /\ IsN(t, 1) /\ IsC(t, 2, {"*", "/"})
            /\ IsC(t, 3, {"("}) /\ IsN(t, 4) /\ IsC(t, 5, {"+", "-"})
            /\ IsN(t, 6) /\ IsC(t, 7, {")"})
    THEN Good(RefApply(t[2].c, t[1].v, RefApply(t[5].c, t[4].v, t[6].v)))
    ELSE Bad

\* eval_mul_expr, entered from the call of eval_add_expr on itself, has got
\* the running sum back from the unary level
SumReentered ==
    /\ At("mul", "after_first")
    /\ Len(stack) >= 3
    /\ stack[Len(stack) - 1].fn = "add"
    /\ stack[Len(stack) - 1].pc = "after_first"
    /\ stack[Len(stack) - 2].fn = "add"
    /\ stack[Len(stack) - 2].pc = "after_tail"

\* C3: every * and / is applied before a + or - next to it (1+2*3 gives 7);
\* a parenthesised group is evaluated as one unit before the operator
\* outside it is applied ((1+2)*3 gives 9); and when eval_add_expr re-enters
\* itself with the running sum in current, no * or / follows, so the sum is
\* never multiplied or divided by the next term.
C3_PrecedenceAndGrouping ==
    /\ Over /\ MixedValue(LineTokens).ok
          => Returned /\ result = Ok(MixedValue(LineTokens).num)
    /\ Over /\ Line = <<"1", "+", "2", "*", "3", "\n">>
          => Returned /\ result = Ok(Num(7))
    /\ Over /\ Line = <<"(", "1", "+", "2", ")", "*", "3", "\n">>
          => Returned /\ result = Ok(Num(9))
    /\ SumReentered
          => current.type = "Number" /\ ret.ok /\ ~IsOp(look_ahead, {"*", "/"})

\* 1+2*3: the sum 1+6 is back in eval_mul_expr through the re-entry
C3_Witness ==
    /\ SumReentered
    /\ Line = <<"1", "+", "2", "*", "3", "\n">>
    /\ current = Number(Num(7))

\* ------------------------------------------------------------------------
\* C4
\* ------------------------------------------------------------------------

\* C4: a leading sign is applied to the primary right after it only (a
\* number or a parenthesised group), and the signed value is the left
\* operand of the binary operator that follows: -2*3 gives -6 and -2+3
\* gives 1, not -5.
C4_UnaryBindsTighter ==
    /\ Over /\ Body(Line) # << >> /\ Body(Line)[1] \in {"+", "-"}
            /\ RefAdd(Body(Line), TRUE).ok
          => Returned /\ result = Ok(RefAdd(Body(Line), TRUE).num)
    /\ Over /\ Line = <<"-", "2", "*", "3", "\n">>
          => Returned /\ result = Ok(Num(-6))
    /\ Over /\ Line = <<"-", "2", "+", "3", "\n">>
          => Returned /\ result = Ok(Num(1))

\* -(3+3)-3 has been evaluated to -9
C4_Witness ==
    /\ Returned
    /\ Line = <<"-", "(", "3", "+", "3", ")", "-", "3", "\n">>
    /\ result = Ok(Num(-9))

\* ------------------------------------------------------------------------
\* C5
\* ------------------------------------------------------------------------

\* the places of s where a binary operator is directly followed by a sign,
\* with a primary before the operator and a primary after the sign
BinopSign(s) ==
    {i \in 2..(Len(s) - 2) :
        /\ s[i] \in {"+", "-", "*", "/"}
        /\ s[i + 1] \in {"+", "-"}
        /\ RefPrim(SubSeq(s, 1, i - 1), FALSE).ok
        /\ RefPrim(SubSeq(s, i + 2, Len(s)), FALSE).ok}

\* the value of term op (sign term) for the split at place i
BinopSignValue(s, i) ==
    LET a == RefPrim(SubSeq(s, 1, i - 1), FALSE).num
        b == RefPrim(SubSeq(s, i + 2, Len(s)), FALSE).num
    IN RefApply(s[i], a, IF s[i + 1] = "-" THEN Neg(b) ELSE b)

\* C5 as stated: a sign that directly follows a binary operator is rejected
\* with `invalid operator`.
C5_SignAfterOperatorRejected ==
    Over /\ BinopSign(Body(Line)) # {}
        => Returned /\ result = Err(InvalidOperator)

\* C5, amended: a sign that directly follows a binary operator is taken as
\* the sign of the right operand: term binop sign term evaluates to
\* term binop (sign term), so 2*-3 gives -6.
C5_SignAfterOperatorAccepted ==
    /\ Over => \A i \in BinopSign(Body(Line)) :
                   Returned /\ result = Ok(BinopSignValue(Body(Line), i))
    /\ Over /\ Line = <<"2", "*", "-", "3", "\n">>
          => Returned /\ result = Ok(Num(-6))

\* 2*-3 has been evaluated to -6
C5_Witness ==
    /\ Returned
    /\ Line = <<"2", "*", "-", "3", "\n">>
    /\ result = Ok(Num(-6))

\* ------------------------------------------------------------------------
\* C6
\* ------------------------------------------------------------------------

\* C6 as stated: the error a grammar level produces reaches the caller of
\* eval unchanged.  (ret holds the error of the additive level, which is the
\* first error raised: the levels hand it up unchanged.)
C6_ErrorReachesCaller ==
    Returned /\ IsErr(ret) => result = ret

\* C6, amended: every error a grammar level produces goes up through the
\* levels unchanged, a frame returning at each step, with no retry; eval
\* returns it as it is when look_ahead is End, and returns
\* `invalid expression` in its place when look_ahead is not End.
C6_ErrorPropagation ==
    /\ [](Returned /\ IsErr(ret)
            => /\ ret.msg \in {UnmatchedBracket, InvalidOperator, ErrorOccurred}
               /\ result = IF look_ahead.type = "End" THEN ret
                           ELSE Err(InvalidExpression))
    /\ [][pc = "run" /\ IsErr(ret)
            => ret' = ret /\ Len(stack') = Len(stack) - 1]_vars

\* an unmatched bracket of the primary level, replaced by eval
C6_Witness ==
    /\ Returned
    /\ ret = Err(UnmatchedBracket)
    /\ look_ahead.type # "End"
    /\ result = Err(InvalidExpression)

\* ------------------------------------------------------------------------
\* C7
\* ------------------------------------------------------------------------

Blank == {" ", "\t"}

\* the first place from i on that holds no blank (Len(s) + 1 if none)
FirstNonBlank(s, i) ==
    LET P == {j \in i..Len(s) : s[j] \notin Blank} IN
    IF P = {} THEN Len(s) + 1 ELSE CHOOSE j \in P : \A k \in P : j <= k

\* one more token starts after the first i characters of s: a parenthesis or
\* a %, or a number set off by a blank
TrailerAfter(s, i) ==
    LET j == FirstNonBlank(s, i + 1) IN
    /\ j <= Len(s)
    /\ \/ s[j] \in {")", "(", "%"}
       \/ s[j] \in AsciiDigits /\ j > i + 1

\* s is a well-formed expression followed by at least one more token
HasTrailer(s) ==
    \E i \in 1..(Len(s) - 1) : WellFormed(SubSeq(s, 1, i)) /\ TrailerAfter(s, i)

\* C7: eval returns Ok only with End in look_ahead; a well-formed
\* expression followed by one more token (a number, a parenthesis, a %, as
\* in 2%3, 1 2 and 1) ) makes eval return `invalid expression`.
C7_TrailingToken ==
    /\ Returned /\ result.ok => look_ahead.type = "End"
    /\ Over /\ HasTrailer(Body(Line))
          => Returned /\ result = Err(InvalidExpression)

\* 3*3 followed by a number has been rejected
C7_Witness ==
    /\ Returned
    /\ Line = <<"3", "*", "3", " ", "3", "\n">>
    /\ ret = Ok(Num(9))
    /\ result = Err(InvalidExpression)

\* ------------------------------------------------------------------------
\* C8
\* ------------------------------------------------------------------------

HasChar(l, c) == \E i \in 1..Len(l) : l[i] = c

\* C8 as stated: a line that holds a % fails at the trailing-token check of
\* eval, with `invalid expression`.
C8_PercentInvalidExpression ==
    Returned /\ HasChar(Line, "%") => result = Err(InvalidExpression)

\* C8, amended: a line that holds a % never evaluates to a number.  eval
\* returns `invalid expression` when a token is left in look_ahead, and the
\* primary level's `invalid operator` when the % is the last token of the
\* line and stands where an operand is expected (it is then in current, with
\* End in look_ahead).
C8_PercentNeverEvaluates ==
    Returned /\ HasChar(Line, "%")
        => /\ ~result.ok
           /\ \/ result = Err(InvalidExpression) /\ look_ahead.type # "End"
              \/ /\ result = Err(InvalidOperator)
                 /\ current = Operator("%")
                 /\ look_ahead.type = "End"

\* 3*% has failed with `invalid operator`, not at the trailing-token check
C8_Witness ==
    /\ Returned
    /\ Line = <<"3", "*", "%", "\n">>
    /\ result = Err(InvalidOperator)

\* ------------------------------------------------------------------------
\* C9
\* ------------------------------------------------------------------------

Closers(k) == [i \in 1..k |-> ")"]

\* s is a well-formed expression but for closing parentheses missing at its
\* end: an opening parenthesis, at any depth and in any operand position,
\* is followed by a well-formed expression and the end of the line
MissesClosers(s) ==
    \E k \in 1..Cardinality({i \in 1..Len(s) : s[i] = "("}) :
        WellFormed(s \o Closers(k))

\* C9: an opening parenthesis followed by a well-formed expression and the
\* end of the input, its closing parenthesis missing, makes eval return
\* `unmatched bracket` ( (1+2, ((1+2), 3*(1+2 ).
C9_UnmatchedBracket ==
    Over /\ MissesClosers(Body(Line))
        => Returned /\ result = Err(UnmatchedBracket)

\* 3*(1+2 has failed with `unmatched bracket`
C9_Witness ==
    /\ Returned
    /\ Line = <<"3", "*", "(", "1", "+", "2", "\n">>
    /\ result = Err(UnmatchedBracket)

\* ------------------------------------------------------------------------
\* C10
\* ------------------------------------------------------------------------

Unrecognized(c) == c \notin WhiteSpace \cup AsciiDigits \cup OperatorChars

\* how many unrecognized characters s holds
CountUnrecognized(s) == Cardinality({i \in 1..Len(s) : Unrecognized(s[i])})

\* C10 as stated: a line that holds an unrecognized character ends the
\* process; eval never returns for it and nothing is printed for it.
C10_UnrecognizedAlwaysAborts ==
    nread >= 1 /\ CountUnrecognized(Line) > 0 => pc \in {"run", "abort"}

\* C10, amended: the process ends when Lexer::next reaches an unrecognized
\* character, that is, is called with one first in the remaining text: no
\* token is returned for it, nothing is printed for the line and nothing
\* more is read or done.  An unrecognized character that lies behind the
\* token at which the parser stops is never reached: it stays in the
\* remaining text, eval returns `invalid expression`, and main goes on.
C10_UnrecognizedReachedAborts ==
    /\ Aborted /\ panicked = PanicUnrecognized
          => /\ trim_start(raw) # << >>
             /\ Unrecognized(trim_start(raw)[1])
             /\ Len(stdout) = nread - 1
             /\ ~ENABLED Next
    /\ pc \in {"run", "print"}
          => CountUnrecognized(raw) = CountUnrecognized(Line)
    /\ Returned /\ CountUnrecognized(Line) > 0
          => result = Err(InvalidExpression) /\ look_ahead.type # "End"

\* the lexer has met an unrecognized character in the first line of two
C10_Witness ==
    /\ Aborted
    /\ panicked = PanicUnrecognized
    /\ nread = 1
    /\ Len(stdin) = 2
    /\ stdout = << >>

\* ------------------------------------------------------------------------
\* C11
\* ------------------------------------------------------------------------

\* the evaluation of the text s divides by an operand whose value is zero
RECURSIVE DividesByZero(_, _)
DividesByZero(s, sg) ==
    LET A == TopLevel(s, {"+", "-"}, sg)
        M == TopLevel(s, {"*", "/"}, sg)
    IN IF A # {}
       THEN \/ DividesByZero(SubSeq(s, 1, Max(A) - 1), sg)
            \/ DividesByZero(SubSeq(s, Max(A) + 1, Len(s)), sg)
       ELSE IF M # {}
       THEN LET right == SubSeq(s, Max(M) + 1, Len(s)) IN
            \/ DividesByZero(SubSeq(s, 1, Max(M) - 1), sg)
            \/ DividesByZero(right, sg)
            \/ s[Max(M)] = "/" /\ IsZero(RefUnary(right, sg).num)
       ELSE IF sg /\ s # << >> /\ s[1] \in {"+", "-"}
       THEN DividesByZero(Tail(s), sg)
       ELSE IF Len(s) >= 3 /\ s[1] = "("
       THEN DividesByZero(SubSeq(s, 2, Len(s) - 1), sg)
       ELSE FALSE

\* the line is an expression of the grammar (signs allowed) whose
\* evaluation divides by zero
ZeroDivisionLine ==
    RefAdd(Body(Line), TRUE).ok /\ DividesByZero(Body(Line), TRUE)

\* eval_mul_expr has just divided op1 by a zero-valued op2 (the frame that
\* divided waits for its call of itself, ret still holds op2)
JustDividedByZero ==
    /\ At("mul", "start")
    /\ Len(stack) >= 2
    /\ stack[Len(stack) - 1].fn = "mul"
    /\ stack[Len(stack) - 1].pc = "after_tail"
    /\ stack[Len(stack) - 1].operator = Operator("/")
    /\ ret.ok
    /\ IsZero(ret.num)

\* what IEEE 754 gives for x / y with y a zero
QuotientByZero(x, y) ==
    IF IsNaN(x) \/ IsZero(x) THEN NaN
    ELSE [s |-> x.s * y.s, n |-> 1, d |-> 0]

\* C11 as stated: an expression whose evaluation divides by zero evaluates
\* to Ok with an infinite or NaN result.
C11_ZeroDivisionResultInfinite ==
    Over /\ ZeroDivisionLine
        => Returned /\ result.ok /\ (IsInf(result.num) \/ IsNaN(result.num))

\* C11, amended: a division by a zero-valued operand is not an error.  The
\* division makes no zero check and yields an infinity or NaN, which goes
\* into current as a Number; nothing aborts and no error is produced, and
\* eval returns Ok with the value the arithmetic gives, which is that
\* infinity or NaN unless a later operation takes it back to a finite value
\* (3/(3/0) gives 0).
C11_ZeroDivisionNoError ==
    /\ Over /\ ZeroDivisionLine
          => Returned /\ result = Ok(RefAdd(Body(Line), TRUE).num)
    /\ JustDividedByZero
          => current = Number(QuotientByZero(stack[Len(stack) - 1].op1, ret.num))
    /\ Returned /\ Line = <<"1", "/", "0", "\n">>
          => result = Ok([s |-> 1, n |-> 1, d |-> 0])
    /\ Returned /\ Line = <<"2", "/", "(", "3", "-", "3", ")", "\n">>
          => result = Ok([s |-> 1, n |-> 1, d |-> 0])

\* 2/(3-3): the division by the zero-valued group has put +inf into current
C11_Witness ==
    /\ JustDividedByZero
    /\ Line = <<"2", "/", "(", "3", "-", "3", ")", "\n">>
    /\ current = Number([s |-> 1, n |-> 1, d |-> 0])

\* ------------------------------------------------------------------------
\* C12
\* ------------------------------------------------------------------------

\* the session was ended by a blank line (and not by the end of the input)
EndedByBlankLine == pc = "exit" /\ nread >= 1 /\ is_blank(stdin[nread])

\* the number of lines whose handling is complete: read, evaluated, printed
LinesDone ==
    IF pc = "read" THEN nread
    ELSE IF pc = "exit" THEN (IF EndedByBlankLine THEN nread - 1 ELSE nread)
    ELSE nread - 1

\* C12: a blank line ends the session and prints nothing; every line
\* before it that is not blank and whose evaluation returns, with a value or
\* with an error, prints exactly one line of output, and then the next line
\* is read.
C12_SessionLoop ==
    /\ Len(stdout) = LinesDone
    /\ \A i \in 1..Len(stdout) : ~is_blank(stdin[i]) /\ stdout[i] # Unset
    /\ \A i \in 1..(nread - 1) : ~is_blank(stdin[i])
    /\ pc = "exit" => nread = Len(stdin) \/ EndedByBlankLine
    /\ Returned => result # Unset /\ ENABLED main_print
    /\ pc = "read" /\ is_blank(next_input)
          => ENABLED main_break /\ ~ENABLED main_read_line
    /\ pc = "read" /\ ~is_blank(next_input)
          => ENABLED main_read_line /\ ~ENABLED main_break
    /\ pc = "exit" => ~ENABLED Next

\* a line with an error, then a blank line: one line of output, the error
C12_Witness ==
    /\ EndedByBlankLine
    /\ nread = 2
    /\ ~stdout[1].ok
    /\ Len(stdout) = 1

\* ------------------------------------------------------------------------
\* C13
\* ------------------------------------------------------------------------

\* the lines of the session before the current one that are the same line
EarlierSame == { i \in 1..(nread - 1) : stdin[i] = Line }

\* C13: nothing is carried from one evaluation to the next.  Every line
\* starts from a new Lexer over that line alone and a new Parser with both
\* slots Empty, so a line that comes again in a session, after whatever
\* lines were between, gives the same result as the first time (and a line
\* that returned the first time does not abort the second time).
C13_NoStateAcrossLines ==
    /\ \A i, j \in 1..Len(stdout) : stdin[i] = stdin[j] => stdout[i] = stdout[j]
    /\ Returned => \A i \in EarlierSame : stdout[i] = result
    /\ Aborted => EarlierSame = {}
    /\ At("eval", "start")
          => /\ raw = Line
             /\ current = Empty /\ look_ahead = Empty
             /\ ret = Unset /\ result = Unset
             /\ Len(stack) = 1

\* 2+3 gives 5 again after a line that failed
C13_Witness ==
    /\ Returned
    /\ nread = 3
    /\ stdin[1] = stdin[3]
    /\ stdin[2] # stdin[1]
    /\ stdout[1].ok /\ ~stdout[2].ok
    /\ result = stdout[1]
    /\ result = Ok(Num(5))

\* ------------------------------------------------------------------------
\* C14
\* ------------------------------------------------------------------------

\* the remaining text starts, after white space, with a digit
StartsWithDigit(r) == trim_start(r) # << >> /\ trim_start(r)[1] \in AsciiDigits

\* what the number rule asks of Lexer::next on the text r: the value of the
\* longest run of digits, and the text after the run
NumberRule(r) ==
    LET s == trim_start(r)
        k == RunLen(s)
    IN [tok |-> Number(Num(RefDecimal(SubSeq(s, 1, k)))),
        raw |-> SubSeq(s, k + 1, Len(s)),
        panic |-> 0]

\* C14: on every remaining text that starts, after white space, with a
\* digit, whether or not a character follows the run of digits, Lexer::next
\* returns the Number of the longest run of digits and leaves the text after
\* the run; it does not abort.
C14_NumberRule ==
    /\ pc = "run" /\ StartsWithDigit(raw) => Lexer_next(raw) = NumberRule(raw)
    /\ panicked # PanicFindUnwrap

\* ------------------------------------------------------------------------
\* C15
\* ------------------------------------------------------------------------

\* a line is under evaluation and both priming shifts are done
Primed == pc = "run" /\ ~At("eval", "start")

\* C15: End is terminal.  look_ahead holds the token of the latest call of
\* Lexer::next and current, when it holds a token, one of an earlier call:
\* once End has come out (current is End), the later call gave End as well,
\* and from a state where the latest token is End every further call gives
\* End and leaves the remaining text as it is, whatever number of shifts
\* the parser makes past the end.
C15_EndIsTerminal ==
    /\ pc = "run" /\ current = End => look_ahead = End
    /\ pc = "run" /\ look_ahead = End
          => /\ Lexer_next(raw) = [tok |-> End, raw |-> raw, panic |-> 0]
             /\ shift(current, look_ahead, raw).look_ahead = End
             /\ shift(current, look_ahead, raw).raw = raw
             /\ shift2(current, look_ahead, raw).current = End
             /\ shift2(current, look_ahead, raw).look_ahead = End
             /\ shift2(current, look_ahead, raw).raw = raw

\* 3*- : the shift over the sign is a shift past the end, End is in both
\* registers and the text is still the newline
C15_Witness ==
    /\ Primed
    /\ Line = <<"3", "*", "-", "\n">>
    /\ current = End /\ look_ahead = End
    /\ raw = <<"\n">>

\* ------------------------------------------------------------------------
\* C16
\* ------------------------------------------------------------------------

\* the two priming shifts of eval are done for the line under evaluation
AfterPriming ==
    \/ Primed
    \/ pc = "print"
    \/ pc = "abort" /\ Len(stack) >= 2

\* eval has just primed: its call of eval_add_expr is about to start
JustPrimed == At("add", "start") /\ Len(stack) = 2

\* token i of the line as the lexer would give it, End after the last one
TokenOfLine(i) ==
    IF i > Len(LineTokens) THEN End
    ELSE IF IsN(LineTokens, i) THEN Number(LineTokens[i].v)
    ELSE Operator(LineTokens[i].c)

\* the line is made of digits and operator characters only, then a newline
PlainLine ==
    /\ HasNewline(Line)
    /\ \A i \in 1..Len(Body(Line)) : Body(Line)[i] \in AsciiDigits \cup OperatorChars

\* C16: after the two priming shifts of eval current holds the first token
\* of the line and look_ahead the second (End where the line has no such
\* token), and in no state after the priming, whatever the input, is
\* current or look_ahead Empty.
C16_LookaheadBuffer ==
    /\ JustPrimed /\ PlainLine
          => current = TokenOfLine(1) /\ look_ahead = TokenOfLine(2)
    /\ AfterPriming => current # Empty /\ look_ahead # Empty
    /\ AfterPriming => current.type # "Empty" /\ look_ahead.type # "Empty"

\* (3): primed with ( and 3
C16_Witness ==
    /\ JustPrimed
    /\ Line = <<"(", "3", ")", "\n">>
    /\ current = Operator("(")
    /\ look_ahead = Number(Num(3))

\* ------------------------------------------------------------------------
\* C17
\* ------------------------------------------------------------------------

\* a level has just returned Ok to the frame on top, which waits for it
JustReturnedOk == pc = "run" /\ stack # << >> /\ Top.pc # "start" /\ ret.ok

\* the level that has just returned, by the place its caller waits at
Returner ==
    CASE Top.fn \in {"eval", "primary"} -> "add"
      [] Top.fn = "unary" -> "primary"
      [] Top.fn = "add" -> IF Top.pc = "after_tail" THEN "add" ELSE "mul"
      [] Top.fn = "mul" -> IF Top.pc = "after_tail" THEN "mul" ELSE "unary"

\* the text of the line the lexer has gone over
Lexed == SubSeq(Line, 1, Len(Line) - Len(raw))

\* the length of the last token of the text s
LastTokenLen(s) ==
    IF s[Len(s)] \in AsciiDigits
    THEN Max({k \in 1..Len(s) : \A j \in (Len(s) - k + 1)..Len(s) : s[j] \in AsciiDigits})
    ELSE 1

\* the text before the token in look_ahead: what the parser is done with
Consumed ==
    IF look_ahead = End \/ Lexed = << >> THEN Lexed
    ELSE SubSeq(Lexed, 1, Len(Lexed) - LastTokenLen(Lexed))

\* the token the text s ends with
LastToken(s) ==
    LET t == SubSeq(s, Len(s) - LastTokenLen(s) + 1, Len(s)) IN
    IF IsNumeral(t) THEN Number(Num(RefDecimal(t))) ELSE Operator(t[1])

\* the texts that end where s ends
Endings(s) == { SubSeq(s, j, Len(s)) : j \in 1..Len(s) }

\* the level that has just returned ran on the running total of a level
\* that called itself (the total is in current, it is no token of the line):
\* below the frame on top a frame waits for its call of itself, and every
\* frame above that one waits for its first operand
Reentered ==
    \E k \in 1..(Len(stack) - 1) :
        /\ stack[k].fn \in {"add", "mul"}
        /\ stack[k].pc = "after_tail"
        /\ \A j \in (k + 1)..Len(stack) :
              \/ stack[j].pc = "after_first"
              \/ stack[j].fn = "unary" /\ stack[j].pc = "after_tail"

\* C17: whenever the primary, unary, multiplicative or additive level
\* returns Ok(v), current is Number(v) and look_ahead is the first token
\* after the sub-expression evaluated: the text before the token in
\* look_ahead ends with an expression of value v, and look_ahead is no
\* operator that the returning level would have gone on with.  After a
\* group in parentheses returns, the text before look_ahead ends with that
\* group, closing parenthesis included, current holds its value and
\* look_ahead the token after the parenthesis.
C17_ConsumptionPostcondition ==
    /\ JustReturnedOk => current = Number(ret.num)
    /\ JustReturnedOk /\ Returner = "mul" => ~IsOp(look_ahead, {"*", "/"})
    /\ JustReturnedOk /\ Returner = "add" => ~IsOp(look_ahead, {"+", "-", "*", "/"})
    /\ JustReturnedOk /\ PlainLine
          => /\ look_ahead # End => look_ahead = LastToken(Lexed)
             /\ look_ahead = End => raw = <<"\n">>
             /\ \E t \in Endings(Consumed) : RefAdd(t, TRUE) = Good(ret.num)
    /\ JustReturnedOk /\ PlainLine /\ Returner = "primary" /\ ~Reentered
          => \E t \in Endings(Consumed) : RefPrim(t, TRUE) = Good(ret.num)
    /\ JustReturnedOk /\ PlainLine /\ Returner = "unary" /\ ~Reentered
          => \E t \in Endings(Consumed) : RefUnary(t, TRUE) = Good(ret.num)

\* (3+3)*3: the group has returned 6, the ")" is gone, look_ahead has the *
C17_Witness ==
    /\ JustReturnedOk
    /\ Returner = "primary"
    /\ Line = <<"(", "3", "+", "3", ")", "*", "3", "\n">>
    /\ Consumed = <<"(", "3", "+", "3", ")">>
    /\ current = Number(Num(6))
    /\ look_ahead = Operator("*")
    /\ raw = <<"3", "\n">>

\* ------------------------------------------------------------------------
\* C18
\* ------------------------------------------------------------------------

\* eval_mul_expr or eval_add_expr has its first operand, or the level it
\* called for one has failed: the place of lines 131 and 160
AtOperandCheck == At("mul", "after_first") \/ At("add", "after_first")

\* C18: the defensive paths are not reached.  Whatever the input, no level
\* and no eval returns the error `error occurred`, and the unwrap of
\* get_number on the left operand shifted out in eval_mul_expr and
\* eval_add_expr does not panic (the only panics are the lexer's): when
\* either level has its first operand, current is a Number.
C18_DefensivePathsUnreachable ==
    /\ ret.msg # ErrorOccurred
    /\ result.msg # ErrorOccurred
    /\ \A i \in 1..Len(stdout) : stdout[i].msg # ErrorOccurred
    /\ panicked \in {0, PanicFindUnwrap, PanicUnrecognized}
    /\ AtOperandCheck /\ ~IsErr(ret) => current.type = "Number"

\* (3)*3: the multiplicative level is about to shift out its left operand,
\* the value of the group
C18_Witness ==
    /\ At("mul", "after_first")
    /\ Line = <<"(", "3", ")", "*", "3", "\n">>
    /\ ret = Ok(Num(3))
    /\ current = Number(Num(3))
    /\ look_ahead = Operator("*")

\* ------------------------------------------------------------------------
\* C19
\* ------------------------------------------------------------------------

\* the first place of the text r where the lexer panics: an unrecognized
\* character, or a run of digits that reaches the end of the text; past the
\* end where there is none
PanicPlace(r) ==
    LET P == {i \in 1..Len(r) :
                \/ r[i] \notin AsciiDigits \cup OperatorChars \cup WhiteSpace
                \/ \A j \in i..Len(r) : r[j] \in AsciiDigits}
    IN IF P = {} THEN Len(r) + 1 ELSE CHOOSE i \in P : \A j \in P : i <= j

\* how many tokens the lexer gives for the text r before End or a panic:
\* the operator characters and the starts of the runs of digits
TokensIn(r) ==
    Cardinality({i \in 1..(PanicPlace(r) - 1) :
                    \/ r[i] \in OperatorChars
                    \/ r[i] \in AsciiDigits /\ (i = 1 \/ r[i - 1] \notin AsciiDigits)})

InRegister(t) == IF t.type \in {"Number", "Operator"} THEN 1 ELSE 0

\* the tokens the parser has still to deal with: in the registers and in
\* the remaining text
TokensLeft == InRegister(current) + InRegister(look_ahead) + TokensIn(raw)

\* the steps a frame can still take by itself, the frames it pushes without
\* a shift included
FrameWeight(fr) ==
    CASE fr.pc \in {"after_tail", "after_first", "after_operand",
                    "after_group", "after_add"} -> 1
      [] fr.pc = "after_op2" -> IF fr.fn = "add" THEN 9 ELSE 7
      [] fr.fn = "primary" -> 1
      [] fr.fn = "unary" -> 3
      [] fr.fn = "mul" -> 5
      [] fr.fn = "add" -> 7
      [] fr.fn = "eval" -> 9

\* the weight of the lowest k frames of the stack
RECURSIVE StackWeight(_)
StackWeight(k) ==
    IF k = 0 THEN 0 ELSE FrameWeight(stack[k]) + StackWeight(k - 1)

\* a bound on the steps eval has still to take: every token left pays for
\* the frames that shifting it out can push
StepsLeft == 8 * TokensLeft + StackWeight(Len(stack))

\* a step of eval that pushes a frame
Calls == pc = "run" /\ pc' = "run" /\ Len(stack') > Len(stack)

\* the step eval takes next is a pair of shifts and a call
TwoShiftsNext ==
    \/ At("eval", "start")
    \/ At("mul", "after_first") /\ ~IsErr(ret) /\ IsOp(look_ahead, MulOps)
    \/ At("add", "after_first") /\ ~IsErr(ret) /\ IsOp(look_ahead, AddOps)

\* C19: eval terminates on every line.  Each step of eval takes at least
\* one from a count that starts at 8 n + 9 for a line of n tokens, so eval
\* takes no more than 8 n + 9 steps, each of them with no more than one call
\* and two shifts; the frames on the stack stay within 4 n + 5; and while
\* eval runs a step can be taken, so eval goes on until it returns or the
\* lexer aborts.  A level calls itself only after two shifts that took an
\* operand and an operator out of the registers, and a group is entered
\* only by the shift that takes its "(" out.
C19_Termination ==
    /\ [](At("eval", "start") => StepsLeft = 8 * TokensIn(Line) + 9)
    /\ [](pc = "run" => StepsLeft >= 1 /\ StepsLeft <= 8 * TokensIn(Line) + 9)
    /\ [](pc = "run" => Len(stack) <= 4 * TokensIn(Line) + 5)
    /\ [](pc = "run" => TwoShiftsNext \/ ENABLED Next)
    /\ [][pc = "run" /\ pc' = "run" => StepsLeft' < StepsLeft]_vars
    /\ [][pc = "run" => pc' \in {"run", "print", "abort"}]_vars
    /\ [][Calls /\ Top.fn \in {"add", "mul"} /\ Top.pc = "after_first"
            => /\ TokensLeft' = TokensLeft - 2
               /\ current.type = "Number"
               /\ look_ahead.type = "Operator"]_vars
    /\ [][Calls /\ Top.fn = "primary"
            => TokensLeft' = TokensLeft - 1 /\ current = Operator("(")]_vars
    /\ [][Calls /\ Top.pc = "after_op2" => Top.operator.type = "Operator"]_vars

\* 3-3-3: eval_add_expr calls itself for the second time, three frames of
\* it are on the stack
C19_Witness ==
    /\ At("add", "start")
    /\ Line = <<"3", "-", "3", "-", "3", "\n">>
    /\ Cardinality({k \in 1..Len(stack) : stack[k].fn = "add"}) = 3
    /\ TokensLeft = 1

====
